---- MODULE Spec2Model ----
(***************************************************************************)
(* Part classification and color application of the 3D House Color Mixer. *)
(*                                                                         *)
(* src/src/main.js keeps the Part Index in the module variable houseParts  *)
(* (category -> list of mesh references).  analyzeModel(object) rebuilds   *)
(* it from a scene graph, updatePartColor(partType, color) repaints the    *)
(* material slots the category resolves to.                                *)
(* loadHouseModel() hands the loaded object, or the procedural house on    *)
(* an error, to analyzeModel and updateAllColors.  src/unnamed/part_001 is *)
(* the render-scheduled version: animate() draws only when needsRender is  *)
(* set, and updateRotation places the orbit camera.                        *)
(*                                                                         *)
(* Five specifications share the variables: Spec (classification),        *)
(* SpecColor (color application), SpecView (camera and render flag of      *)
(* part_001), SpecLoad (loading, reloading and the color inputs),          *)
(* SpecScheduled (loads, color changes and draws of part_001, with         *)
(* main.js taken through the same events).                                 *)
(*                                                                         *)
(* Modelling conventions                                                   *)
(*  - A string is a sequence of one-character strings, so that             *)
(*    toLowerCase() and includes() are computed, not assumed.              *)
(*  - A scene graph is the sequence of its nodes in the order in which     *)
(*    Object3D.traverse hands them to the callback (the object itself,     *)
(*    then its descendants depth-first).  A node is a record               *)
(*    [isMesh, name, material]; a node reference is its position.          *)
(*  - child.material is absent, one material object, or an array of        *)
(*    material objects: [kind |-> "none" | "single" | "array", n |-> k],   *)
(*    n being the array length.  Every slot holds a material object of     *)
(*    its own, so a slot's color is the color of its material.             *)
(***************************************************************************)
EXTENDS Integers, Sequences, FiniteSets, TLC

VARIABLES houseModel, houseParts, slotColor, expected, twin, lastOp,
          orbit, camera, needsRender, drew, resizeTimeout, drawn,
          scene, pending, issued, modelId, dom, analyzeCalls

\* The Part Index, the loaded graph and the colors of its material slots;
\* twin holds the three as src/src/main.js has them when it is run beside
\* the render-scheduled version.
partVars == <<houseModel, houseParts, slotColor, expected, twin>>

\* The orbit camera and the render flag of src/unnamed/part_001, and the
\* slot colors the last draw has shown.
viewVars == <<orbit, camera, needsRender, drew, resizeTimeout, drawn>>

\* The house models attached to the scene, the load requests in flight and
\* the page elements of src/src/main.js; the number of analyzeModel calls
\* made for each request that has had one.
loadVars == <<scene, pending, issued, modelId, dom, analyzeCalls>>

vars == <<houseModel, houseParts, slotColor, expected, twin, lastOp,
          orbit, camera, needsRender, drew, resizeTimeout, drawn,
          scene, pending, issued, modelId, dom, analyzeCalls>>

----------------------------------------------------------------------------
(* Bounds *)

\* Largest number of nodes of a scene graph handed to analyzeModel.
MaxNodes == 2

----------------------------------------------------------------------------
(* Strings *)

UpperToLower ==
  "A" :> "a" @@ "B" :> "b" @@ "C" :> "c" @@ "D" :> "d" @@ "E" :> "e" @@
  "F" :> "f" @@ "G" :> "g" @@ "H" :> "h" @@ "I" :> "i" @@ "J" :> "j" @@
  "K" :> "k" @@ "L" :> "l" @@ "M" :> "m" @@ "N" :> "n" @@ "O" :> "o" @@
  "P" :> "p" @@ "Q" :> "q" @@ "R" :> "r" @@ "S" :> "s" @@ "T" :> "t" @@
  "U" :> "u" @@ "V" :> "v" @@ "W" :> "w" @@ "X" :> "x" @@ "Y" :> "y" @@
  "Z" :> "z"

\* String.prototype.toLowerCase on the characters the labels use.
toLowerCase(s) ==
  [i \in 1..Len(s) |-> IF s[i] \in DOMAIN UpperToLower THEN UpperToLower[s[i]] ELSE s[i]]

\* String.prototype.includes: sub occurs in s as a contiguous run.
includes(s, sub) ==
  \E i \in 0..(Len(s) - Len(sub)) : SubSeq(s, i + 1, i + Len(sub)) = sub

kwCottage  == <<"c","o","t","t","a","g","e">>
kwHouse    == <<"h","o","u","s","e">>
kwWall     == <<"w","a","l","l">>
kwSiding   == <<"s","i","d","i","n","g">>
kwExterior == <<"e","x","t","e","r","i","o","r">>
kwRoof     == <<"r","o","o","f">>
kwShingle  == <<"s","h","i","n","g","l","e">>
kwTile     == <<"t","i","l","e">>
kwDoor     == <<"d","o","o","r">>
kwEntrance == <<"e","n","t","r","a","n","c","e">>
kwWindow   == <<"w","i","n","d","o","w">>
kwGlass    == <<"g","l","a","s","s">>
kwPane     == <<"p","a","n","e">>

----------------------------------------------------------------------------
(* Scene graphs *)

CottageBody     == <<"C","o","t","t","a","g","e","B","o","d","y">>
FrontDoor_Glass == <<"F","r","o","n","t","D","o","o","r","_","G","l","a","s","s">>
Mesh001         == <<"M","e","s","h","0","0","1">>
RoofName        == <<"r","o","o","f">>
WindowLeft      == <<"w","i","n","d","o","w","_","l","e","f","t">>
NoName          == <<>>
WallsName       == <<"w","a","l","l","s">>
DoorName        == <<"d","o","o","r">>
WindowRight     == <<"w","i","n","d","o","w","_","r","i","g","h","t">>

NoMaterial     == [kind |-> "none",   n |-> 0]
SingleMaterial == [kind |-> "single", n |-> 1]
MaterialArray(k) == [kind |-> "array", n |-> k]

Mesh(name, material) == [isMesh |-> TRUE,  name |-> name, material |-> material]
Group                == [isMesh |-> FALSE, name |-> NoName, material |-> NoMaterial]

\* The nodes scene graphs are built from: labels that exercise each rule
\* group, and each shape child.material can take.
NodeKinds ==
  { Group,
    Mesh(CottageBody, MaterialArray(4)),
    Mesh(CottageBody, SingleMaterial),
    Mesh(FrontDoor_Glass, SingleMaterial),
    Mesh(Mesh001, SingleMaterial),
    Mesh(RoofName, MaterialArray(1)),
    Mesh(WindowLeft, MaterialArray(2)),
    Mesh(Mesh001, MaterialArray(2)),
    Mesh(NoName, NoMaterial) }

Graphs == UNION { [1..k -> NodeKinds] : k \in 0..MaxNodes }

\* The house createProceduralHouse builds: a group of five meshes, each
\* with a material of its own.
ProceduralHouse ==
  << Group,
     Mesh(WallsName, SingleMaterial),
     Mesh(RoofName, SingleMaterial),
     Mesh(DoorName, SingleMaterial),
     Mesh(WindowLeft, SingleMaterial),
     Mesh(WindowRight, SingleMaterial) >>

\* The objects the loader hands to its success callback: a multi-material
\* cottage under a group, and a file of two separately named meshes, the
\* second of which carries its one material in a list.
LoadableGraphs ==
  { << Group, Mesh(CottageBody, MaterialArray(4)) >>,
    << Mesh(FrontDoor_Glass, SingleMaterial), Mesh(RoofName, MaterialArray(1)) >> }

----------------------------------------------------------------------------
(* Part Index *)

Categories == {"walls", "roof", "doors", "windows", "other"}

\* let houseParts = { walls: [], roof: [], doors: [], windows: [], other: [] }
EmptyParts == [key \in Categories |-> <<>>]

\* resetParts without the reset loop: the arrays keep their entries.
resetPartsSkipped(parts) == parts

\* resetParts that clears the four named arrays and forgets "other".
resetPartsNamedOnly(parts) ==
  [key \in DOMAIN parts |-> IF key = "other" THEN parts[key] ELSE <<>>]

\* resetParts that keeps what the walls array held.
resetPartsKeepWalls(parts) ==
  [key \in DOMAIN parts |-> IF key = "walls" THEN parts[key] ELSE <<>>]

\* "Reset parts arrays": every key of houseParts gets a fresh empty array.
resetParts(parts) == [key \in DOMAIN parts |-> <<>>]

\* const materialCount = hasMaterialArray ? child.material.length
\*                                        : (child.material ? 1 : 0)
materialCountOf(child) ==
  IF child.material.kind = "array" THEN child.material.n
  ELSE IF child.material.kind = "single" THEN 1 ELSE 0

\* categorize whose composite branch is a plain if, not the head of the
\* else-if chain: a composite child falls through to the next test as well.
categorizeFallThrough(child, meshCount) ==
  LET name == toLowerCase(child.name)
      materialCount == materialCountOf(child)
      first == IF includes(name, kwCottage) /\ materialCount >= 4
                 THEN <<"walls", "roof", "doors", "windows">> ELSE <<>>
  IN first \o
     (IF includes(name, kwCottage) \/ includes(name, kwHouse) \/ meshCount = 1
        THEN <<"walls">>
      ELSE IF includes(name, kwWall) \/ includes(name, kwSiding) \/ includes(name, kwExterior)
        THEN <<"walls">>
      ELSE IF includes(name, kwRoof) \/ includes(name, kwShingle) \/ includes(name, kwTile)
        THEN <<"roof">>
      ELSE IF includes(name, kwDoor) \/ includes(name, kwEntrance)
        THEN <<"doors">>
      ELSE IF includes(name, kwWindow) \/ includes(name, kwGlass) \/ includes(name, kwPane)
        THEN <<"windows">>
      ELSE <<"other">>)

\* categorize whose windows branch looks for "glass" and "pane" only.
categorizeGlassOnly(child, meshCount) ==
  LET name == toLowerCase(child.name)
      materialCount == materialCountOf(child)
  IN IF includes(name, kwCottage) /\ materialCount >= 4
       THEN <<"walls", "roof", "doors", "windows">>
     ELSE IF includes(name, kwCottage) \/ includes(name, kwHouse) \/ meshCount = 1
       THEN <<"walls">>
     ELSE IF includes(name, kwWall) \/ includes(name, kwSiding) \/ includes(name, kwExterior)
       THEN <<"walls">>
     ELSE IF includes(name, kwRoof) \/ includes(name, kwShingle) \/ includes(name, kwTile)
       THEN <<"roof">>
     ELSE IF includes(name, kwDoor) \/ includes(name, kwEntrance)
       THEN <<"doors">>
     ELSE IF includes(name, kwGlass) \/ includes(name, kwPane)
       THEN <<"windows">>
     ELSE <<"other">>

\* categorize without the meshCount === 1 test of the fallback branch.
categorizeNoFirstMesh(child, meshCount) ==
  LET name == toLowerCase(child.name)
      materialCount == materialCountOf(child)
  IN IF includes(name, kwCottage) /\ materialCount >= 4
       THEN <<"walls", "roof", "doors", "windows">>
     ELSE IF includes(name, kwCottage) \/ includes(name, kwHouse)
       THEN <<"walls">>
     ELSE IF includes(name, kwWall) \/ includes(name, kwSiding) \/ includes(name, kwExterior)
       THEN <<"walls">>
     ELSE IF includes(name, kwRoof) \/ includes(name, kwShingle) \/ includes(name, kwTile)
       THEN <<"roof">>
     ELSE IF includes(name, kwDoor) \/ includes(name, kwEntrance)
       THEN <<"doors">>
     ELSE IF includes(name, kwWindow) \/ includes(name, kwGlass) \/ includes(name, kwPane)
       THEN <<"windows">>
     ELSE <<"other">>

\* The if / else-if chain of the traverse callback: the categories whose
\* arrays receive the child, in push order.  meshCount has already been
\* incremented for this child.
categorize(child, meshCount) ==
  LET name == toLowerCase(child.name)
      materialCount == materialCountOf(child)
  IN IF includes(name, kwCottage) /\ materialCount >= 4
       THEN <<"walls", "roof", "doors", "windows">>
     ELSE IF includes(name, kwCottage) \/ includes(name, kwHouse) \/ meshCount = 1
       THEN <<"walls">>
     ELSE IF includes(name, kwWall) \/ includes(name, kwSiding) \/ includes(name, kwExterior)
       THEN <<"walls">>
     ELSE IF includes(name, kwRoof) \/ includes(name, kwShingle) \/ includes(name, kwTile)
       THEN <<"roof">>
     ELSE IF includes(name, kwDoor) \/ includes(name, kwEntrance)
       THEN <<"doors">>
     ELSE IF includes(name, kwWindow) \/ includes(name, kwGlass) \/ includes(name, kwPane)
       THEN <<"windows">>
     ELSE <<"other">>

RECURSIVE pushInto(_, _, _)
\* houseParts.<c>.push(child) for each c of cats, in order.
pushInto(parts, cats, child) ==
  IF cats = <<>> THEN parts
  ELSE pushInto([parts EXCEPT ![Head(cats)] = Append(@, child)], Tail(cats), child)

\* categorize tabulated over the nodes and counter values a traversal meets.
categorizeMemo ==
  [child \in NodeKinds \cup {ProceduralHouse[j] : j \in DOMAIN ProceduralHouse},
   meshCount \in 1..(MaxNodes + Len(ProceduralHouse)) |-> categorize(child, meshCount)]

RECURSIVE traverse(_, _, _, _)
\* object.traverse(function (child) { if (child.isMesh) { meshCount++; ... } })
\* from node i on, with the index and the mesh counter built so far.
traverse(object, i, parts, meshCount) ==
  IF i > Len(object) THEN [parts |-> parts, meshCount |-> meshCount]
  ELSE IF object[i].isMesh
    THEN traverse(object, i + 1,
                  pushInto(parts, categorizeMemo[object[i], meshCount + 1], i),
                  meshCount + 1)
    ELSE traverse(object, i + 1, parts, meshCount)

\* analyzeModel(object), started with the Part Index in state parts.
analyzeModel(parts, object) == traverse(object, 1, resetParts(parts), 0)

\* The names of the materials of a mesh, in slot order.  The multi-material
\* cottage carries the four materials of the Blender script; a material
\* created without a name has the empty name.
materialNamesOf(child) ==
  IF includes(toLowerCase(child.name), kwCottage) /\ child.material = MaterialArray(4)
    THEN <<"Cottage_Walls", "Cottage_Roof", "Cottage_Doors", "Cottage_Windows">>
    ELSE [s \in 1..materialCountOf(child) |-> ""]

\* materials.add(mat.name || "Unnamed") for each material of the i-th node.
addMaterials(materials, child, i) ==
  LET names == materialNamesOf(child)
  IN materials \cup {IF names[s] = "" THEN "Unnamed" ELSE names[s] : s \in DOMAIN names}

\* partItem.style.borderLeft, set by the branch that categorized the child.
borderLeft(cats) ==
  IF Len(cats) = 4 THEN "4px solid #4CAF50"
  ELSE IF cats[1] = "walls" THEN "4px solid #D2B48C"
  ELSE IF cats[1] = "roof" THEN "4px solid #8B4513"
  ELSE IF cats[1] = "doors" THEN "4px solid #654321"
  ELSE IF cats[1] = "windows" THEN "4px solid #87CEEB"
  ELSE "4px solid #888"

\* The div appended to #model-parts for the i-th node.
partItem(object, i, meshCount) ==
  [child |-> i, borderLeft |-> borderLeft(categorizeMemo[object[i], meshCount])]

RECURSIVE describe(_, _, _)
\* What the traverse callback leaves on the page from node i on: one part
\* item per mesh, the materials set and the mesh counter.
describe(object, i, acc) ==
  IF i > Len(object) THEN acc
  ELSE IF object[i].isMesh
    THEN describe(object, i + 1,
           [partsList |-> Append(acc.partsList, partItem(object, i, acc.meshCount + 1)),
            materials |-> addMaterials(acc.materials, object[i], i),
            meshCount |-> acc.meshCount + 1])
    ELSE describe(object, i + 1, acc)

\* What analyzeModel(object) writes to the page: partsList.innerHTML = "",
\* the part items, and the text of #model-details.
modelReport(partsList, object) ==
  LET r == describe(object, 1, [partsList |-> <<>>, materials |-> {}, meshCount |-> 0])
  IN [modelParts |-> r.partsList,
      modelDetails |-> [parts |-> r.meshCount, materials |-> Cardinality(r.materials)]]

----------------------------------------------------------------------------
(* Color application *)

\* Target colors a caller passes (a color input's value, a preset's color).
Colors == {"#8B4513", "#FFFFFF"}

\* The color a material carries when its model is loaded.
InitialColor == "asLoaded"

\* Slot colors of a freshly loaded graph: one entry per material slot.
initialColors(object) ==
  [i \in 1..Len(object) |-> [s \in 1..materialCountOf(object[i]) |-> InitialColor]]

\* const materialSlots = { walls: 0, roof: 1, doors: 2, windows: 3 }
materialSlots == "walls" :> 0 @@ "roof" :> 1 @@ "doors" :> 2 @@ "windows" :> 3

\* getPartMaterialIndex counting slots from 1 instead of 0.
getPartMaterialIndexOneBased(partType) ==
  IF partType \in DOMAIN materialSlots THEN materialSlots[partType] + 1 ELSE -1

\* return materialSlots[partType] ?? -1
getPartMaterialIndex(partType) ==
  IF partType \in DOMAIN materialSlots THEN materialSlots[partType] ELSE -1

\* paintPart whose array branch repaints every material of the array.
paintPartAllSlots(partType, color, part, cols) ==
  IF part.material.kind = "none" THEN cols
  ELSE [s \in DOMAIN cols |-> color]

\* paintPart that repaints the first material of the array when the part
\* type has no slot in it.
paintPartFallbackFirst(partType, color, part, cols) ==
  IF part.material.kind = "none" THEN cols
  ELSE IF part.material.kind = "array"
    THEN LET materialIndex == getPartMaterialIndex(partType)
         IN IF materialIndex >= 0 /\ materialIndex < part.material.n
              THEN [cols EXCEPT ![materialIndex + 1] = color]
              ELSE [cols EXCEPT ![1] = color]
    ELSE [cols EXCEPT ![1] = color]

\* The body of parts.forEach((part) => ...): the slot colors of one part
\* after the callback, from its slot colors cols.
paintPart(partType, color, part, cols) ==
  IF part.material.kind = "none" THEN cols
  ELSE IF part.material.kind = "array"
    THEN LET materialIndex == getPartMaterialIndex(partType)
         IN IF materialIndex >= 0 /\ materialIndex < part.material.n
              THEN [cols EXCEPT ![materialIndex + 1] = color]
              ELSE cols
    ELSE [cols EXCEPT ![1] = color]

RECURSIVE paintParts(_, _, _, _, _)
\* parts.forEach over the category's list, in list order.
paintParts(partType, color, list, model, colors) ==
  IF list = <<>> THEN colors
  ELSE LET part == Head(list)
       IN paintParts(partType, color, Tail(list), model,
                     [colors EXCEPT ![part] = paintPart(partType, color, model[part], @)])

\* updatePartColor that reads parts[0].material before the loop: an empty
\* list makes that read throw.
updatePartColorReadsFirst(partType, color, parts, model, colors) ==
  IF partType \notin DOMAIN parts \/ parts[partType] = <<>>
    THEN [slotColor |-> colors, threw |-> TRUE]
    ELSE [slotColor |-> paintParts(partType, color, parts[partType], model, colors),
          threw |-> FALSE]

\* updatePartColor(partType, color).  houseParts[partType] is undefined for
\* a partType that is no key of houseParts, and reading parts.length then
\* throws before any part is touched.
updatePartColor(partType, color, parts, model, colors) ==
  IF partType \notin DOMAIN parts
    THEN [slotColor |-> colors, threw |-> TRUE]
    ELSE [slotColor |-> paintParts(partType, color, parts[partType], model, colors),
          threw |-> FALSE]

----------------------------------------------------------------------------
(* State machine *)

\* The part types a caller hands to updatePartColor: the five keys of
\* houseParts, and a string that is no key (a preset's data-target).
PartTypes == Categories \cup {"trim"}

\* The Material Slot Map of the data model: category -> slot index.
SlotMapIndex == "walls" :> 0 @@ "roof" :> 1 @@ "doors" :> 2 @@ "windows" :> 3

\* Material slot s (1-based) of node i is resolved for partType: the node is
\* in the category's sequence and the slot is its only slot, or the slot at
\* the category's Material Slot Map index of a multi-slot node.
Resolved(partType, parts, model, i, s) ==
  /\ partType \in DOMAIN parts
  /\ \E j \in DOMAIN parts[partType] : parts[partType][j] = i
  /\ LET count == materialCountOf(model[i])
     IN /\ s \in 1..count
        /\ count > 1 => /\ partType \in DOMAIN SlotMapIndex
                        /\ s = SlotMapIndex[partType] + 1

\* src/src/main.js beside the render-scheduled version, before init().
NoTwin == [houseModel |-> <<>>, houseParts |-> [c \in Categories |-> <<>>], slotColor |-> <<>>]

NoOp == [op |-> "init", partType |-> "", color |-> InitialColor, threw |-> FALSE,
         sameObject |-> FALSE, hadEntries |-> FALSE, applied |-> {}]

\* The closure variables of addMouseControls as declared.  Angles are in
\* units of 0.01 rad (one pixel of pointer movement), the orbit radius in
\* units of 0.01.
InitialOrbit ==
  [isMouseDown |-> FALSE, targetRotationX |-> 0, targetRotationY |-> 0,
   rotationX |-> 0, rotationY |-> 0, radius |-> 1500]

\* camera.position.set(10, 8, 10) in init(): a position that is no function
\* of the orbit variables.  Once updateRotation has placed the camera, the
\* record holds the rotation and radius its position was computed from.
InitialCamera == [placedBy |-> "init", rotationX |-> 0, rotationY |-> 0, radius |-> 0]

\* The four color inputs, in the order addEventListeners and updateAllColors
\* look them up.
ColorInputs == <<"walls", "roof", "doors", "windows">>

ColorInputSet == {ColorInputs[j] : j \in DOMAIN ColorInputs}

\* The page with the color inputs of the set present: no listener wired yet,
\* each input holding the color value. The loading screen and the controls
\* are as the stylesheet shows them.
Page(present, value, loading, controls) ==
  [present |-> present, value |-> value, wired |-> {},
   loading |-> loading, controls |-> controls, status |-> "",
   modelParts |-> <<>>, modelDetails |-> [parts |-> 0, materials |-> 0]]

\* The page after analyzeModel(object) has written its report.
Reported(d, object) ==
  LET r == modelReport(d.modelParts, object)
  IN [d EXCEPT !.modelParts = r.modelParts, !.modelDetails = r.modelDetails]

\* The page and the scene before init() wires the listeners and requests
\* the first load: all four inputs present, no house model attached.
InitPage ==
  /\ scene = <<>>
  /\ pending = {}
  /\ issued = 0
  /\ modelId = 0
  /\ analyzeCalls = <<>>
  /\ dom = Page(ColorInputSet, [c \in ColorInputSet |-> "#8B4513"], "block", "none")

\* The view as init() leaves it before the first iteration of animate():
\* requestRender() has set the flag, no resize is pending.
InitView ==
  /\ orbit = InitialOrbit
  /\ camera = InitialCamera
  /\ needsRender = TRUE
  /\ drew = FALSE
  /\ resizeTimeout = FALSE
  /\ drawn = <<>>

\* Startup: no model, the Part Index created empty.
Init ==
  /\ houseModel = <<>>
  /\ houseParts = EmptyParts
  /\ slotColor = <<>>
  /\ expected = <<>>
  /\ twin = NoTwin
  /\ lastOp = NoOp
  /\ InitView
  /\ InitPage

\* A call analyzeModel(object): on a freshly loaded graph, whose materials
\* carry their initial colors, or once more on the graph classified last.
AnalyzeModel(object, sameObject) ==
  /\ sameObject => (object = houseModel /\ lastOp.op # "init")
  /\ houseModel' = object
  /\ houseParts' = analyzeModel(houseParts, object).parts
  /\ slotColor' = IF sameObject THEN slotColor ELSE initialColors(object)
  /\ expected' = slotColor'
  /\ lastOp' = [NoOp EXCEPT !.op = "analyzeModel", !.sameObject = sameObject,
                            !.hadEntries = (houseParts # EmptyParts)]
  /\ dom' = Reported(dom, object)
  /\ UNCHANGED <<twin, viewVars, scene, pending, issued, modelId, analyzeCalls>>

\* A call updatePartColor(partType, color).
UpdatePartColor(partType, color) ==
  LET r == updatePartColor(partType, color, houseParts, houseModel, slotColor)
  IN /\ slotColor' = r.slotColor
     /\ expected' = [i \in DOMAIN expected |-> [s \in DOMAIN expected[i] |->
                       IF Resolved(partType, houseParts, houseModel, i, s)
                         THEN color ELSE expected[i][s]]]
     /\ lastOp' = [NoOp EXCEPT !.op = "updatePartColor", !.partType = partType,
                               !.color = color, !.threw = r.threw]
     /\ UNCHANGED <<houseModel, houseParts, twin>>
     /\ UNCHANGED <<viewVars, loadVars>>

\* Classification: analyzeModel called again and again, on new graphs and on
\* the graph it classified last.
Next ==
  \E object \in Graphs, sameObject \in BOOLEAN : AnalyzeModel(object, sameObject)

Spec == Init /\ [][Next]_vars

\* Color application between two rebuilds of the Part Index: a graph has
\* been loaded and classified, its materials carry their initial colors.
InitLoaded ==
  \E object \in Graphs :
    /\ houseModel = object
    /\ houseParts = analyzeModel(EmptyParts, object).parts
    /\ slotColor = initialColors(object)
    /\ expected = initialColors(object)
    /\ twin = NoTwin
    /\ lastOp = [NoOp EXCEPT !.op = "analyzeModel"]
    /\ InitView
    /\ scene = <<>>
    /\ pending = {}
    /\ issued = 0
    /\ modelId = 0
  /\ analyzeCalls = <<>>
    /\ dom = Reported(Page(ColorInputSet, [c \in ColorInputSet |-> "#8B4513"],
                           "block", "none"), object)

NextColor ==
  \E partType \in PartTypes, color \in Colors : UpdatePartColor(partType, color)

SpecColor == InitLoaded /\ [][NextColor]_vars

----------------------------------------------------------------------------
(* Render scheduling and orbit camera (src/unnamed/part_001) *)

\* Largest distance of a target rotation from its initial value, in pointer
\* drags of four pixels.
MaxDrag == 1

\* Largest distance of the orbit radius from its initial value, in wheel
\* notches of deltaY = 100.
MaxNotches == 1

\* Largest number of fine wheel ticks (deltaY = 5, a touchpad scroll) the
\* orbit radius lies beyond a whole notch.
MaxFine == 1

\* Pointer movements (e.clientX - mouseX, e.clientY - mouseY) between two
\* pointer events, in pixels, and the deltaY of wheel events: a notch of a
\* mouse wheel in either direction, and a tick of a touchpad scroll.
PointerDeltas == {<<4, 4>>, <<-4, -4>>}
WheelDeltas == {-100, 100, 5}

Abs(x) == IF x < 0 THEN -x ELSE x
Max(x, y) == IF x >= y THEN x ELSE y
Min(x, y) == IF x <= y THEN x ELSE y

\* x * num / den, rounded away from zero.
Scaled(x, num, den) ==
  IF x >= 0 THEN (x * num + den - 1) \div den ELSE -(((-x) * num + den - 1) \div den)

\* requestRender(): the value it leaves in needsRender.
requestRender == TRUE

\* The mousemove listener while the button is down.  One pixel is 0.01 rad;
\* the vertical target is clamped to [-0.1, Math.PI / 2.5] = [-10, 125].  mouseX, mouseY
\* are the pointer position of the previous event and are not kept: dx, dy
\* are the differences the listener computes from them.
mousemove(o, dx, dy) ==
  [o EXCEPT !.targetRotationY = @ + dx,
            !.targetRotationX = Max(-10, Min(125, @ + dy))]

\* rotation += (targetRotation - rotation) * rotationDamping, with
\* rotationDamping = 0.05.  The rotation is kept in whole units; the step is
\* rounded away from zero, so that the rotation comes to rest on its target
\* instead of approaching it for ever.
Damped(rotation, targetRotation) ==
  rotation + Scaled(targetRotation - rotation, 5, 100)

\* The camera position updateRotation computes from the orbit variables.
Placed(o) ==
  [placedBy |-> "updateRotation", rotationX |-> o.rotationX,
   rotationY |-> o.rotationY, radius |-> o.radius]

\* One frame of updateRotation: the rotation moves towards its target; the
\* camera is placed and a render requested only if a rotation moved by more
\* than 0.001 rad in this frame.  deltaX, deltaY are the unrounded steps
\* |targetRotation - rotation| * 0.05 in units of 0.0001 rad.
updateRotation(o, cam, flag) ==
  LET moved == [o EXCEPT !.rotationX = Damped(o.rotationX, o.targetRotationX),
                         !.rotationY = Damped(o.rotationY, o.targetRotationY)]
      deltaX == Abs(o.targetRotationX - o.rotationX) * 5
      deltaY == Abs(o.targetRotationY - o.rotationY) * 5
  IN IF deltaX > 10 \/ deltaY > 10
       THEN [orbit |-> moved, camera |-> Placed(moved), needsRender |-> requestRender]
       ELSE [orbit |-> moved, camera |-> cam, needsRender |-> flag]

\* The wheel listener: radius += deltaY * 0.01, clamped to [5, 50]; a render
\* is requested if the radius changed by more than 0.1.
wheel(o, flag, deltaY) ==
  LET radius == Max(500, Min(5000, o.radius + deltaY))
  IN [orbit |-> [o EXCEPT !.radius = radius],
      needsRender |-> IF Abs(radius - o.radius) > 10 THEN requestRender ELSE flag]

\* A loop body that draws in every iteration.
animateEveryFrame(flag) == [drew |-> TRUE, needsRender |-> FALSE]

\* One iteration of animate(): draws if needsRender is set and clears it.
\* mixer is never assigned, so mixer.update is not reached; updateStats()
\* only counts frames for the fps display.
animate(flag) ==
  IF flag THEN [drew |-> TRUE, needsRender |-> FALSE]
          ELSE [drew |-> FALSE, needsRender |-> flag]

MouseDown ==
  /\ orbit' = [orbit EXCEPT !.isMouseDown = TRUE]
  /\ lastOp' = [NoOp EXCEPT !.op = "mousedown"]
  /\ UNCHANGED <<partVars, loadVars, camera, needsRender, drew, resizeTimeout, drawn>>

MouseUp ==
  /\ orbit' = [orbit EXCEPT !.isMouseDown = FALSE]
  /\ lastOp' = [NoOp EXCEPT !.op = "mouseup"]
  /\ UNCHANGED <<partVars, loadVars, camera, needsRender, drew, resizeTimeout, drawn>>

MouseMove(dx, dy) ==
  /\ orbit' = IF orbit.isMouseDown THEN mousemove(orbit, dx, dy) ELSE orbit
  /\ Abs(orbit'.targetRotationX) <= MaxDrag * 4
  /\ Abs(orbit'.targetRotationY) <= MaxDrag * 4
  /\ lastOp' = [NoOp EXCEPT !.op = "mousemove"]
  /\ UNCHANGED <<partVars, loadVars, camera, needsRender, drew, resizeTimeout, drawn>>

UpdateRotation ==
  LET r == updateRotation(orbit, camera, needsRender)
  IN /\ orbit' = r.orbit
     /\ camera' = r.camera
     /\ needsRender' = r.needsRender
     /\ lastOp' = [NoOp EXCEPT !.op = "updateRotation"]
     /\ UNCHANGED <<partVars, loadVars, drew, resizeTimeout, drawn>>

Wheel(deltaY) ==
  LET r == wheel(orbit, needsRender, deltaY)
  IN /\ Abs(r.orbit.radius - InitialOrbit.radius) <= MaxNotches * 100
     /\ r.orbit.radius % 100 <= MaxFine * 5
     /\ orbit' = r.orbit
     /\ needsRender' = r.needsRender
     /\ lastOp' = [NoOp EXCEPT !.op = "wheel"]
     /\ UNCHANGED <<partVars, loadVars, camera, drew, resizeTimeout, drawn>>

\* A resize event (re)starts the 100 ms timer.
Resize ==
  /\ resizeTimeout' = TRUE
  /\ lastOp' = [NoOp EXCEPT !.op = "resize"]
  /\ UNCHANGED <<partVars, loadVars, orbit, camera, needsRender, drew, drawn>>

\* The timer fires: the renderer is resized and a render requested.
ResizeTimeout ==
  /\ resizeTimeout
  /\ resizeTimeout' = FALSE
  /\ needsRender' = requestRender
  /\ lastOp' = [NoOp EXCEPT !.op = "resizeTimeout"]
  /\ UNCHANGED <<partVars, loadVars, orbit, camera, drew, drawn>>

Animate ==
  LET r == animate(needsRender)
  IN /\ drew' = r.drew
     /\ drawn' = IF r.drew THEN slotColor ELSE drawn
     /\ needsRender' = r.needsRender
     /\ lastOp' = [NoOp EXCEPT !.op = "animate"]
     /\ UNCHANGED <<partVars, loadVars, orbit, camera, resizeTimeout>>

NextView ==
  \/ MouseDown
  \/ MouseUp
  \/ \E d \in PointerDeltas : MouseMove(d[1], d[2])
  \/ UpdateRotation
  \/ \E deltaY \in WheelDeltas : Wheel(deltaY)
  \/ Resize
  \/ ResizeTimeout
  \/ Animate

\* The view of the render-scheduled version under pointer, wheel and resize
\* events and the two requestAnimationFrame loops.
SpecView == Init /\ [][NextView]_vars

----------------------------------------------------------------------------
(* Model loading and the color inputs (src/src/main.js) *)

\* Largest number of load requests: the one init() issues and the Load Model
\* clicks.
MaxLoads == 2

\* A version that wires the inputs without looking whether they exist.
addEventListenersUnguarded(d) ==
  IF d.present = ColorInputSet
    THEN [dom |-> [d EXCEPT !.wired = ColorInputSet], threw |-> FALSE]
    ELSE [dom |-> d, threw |-> TRUE]

\* addEventListeners(): an input listener on each color input that exists.
\* The preset, load-model and resize listeners are registered after them.
addEventListeners(d) ==
  [dom |-> [d EXCEPT !.wired = {c \in ColorInputSet : c \in d.present}],
   threw |-> FALSE]

RECURSIVE updateAllColorsFrom(_, _, _, _, _)
\* The lookups of updateAllColors from the j-th on: if (el)
\* updatePartColor(c, el.value).
updateAllColorsFrom(j, d, parts, model, acc) ==
  IF j > Len(ColorInputs) THEN acc
  ELSE LET c == ColorInputs[j]
       IN IF c \in d.present
            THEN LET r == updatePartColor(c, d.value[c], parts, model, acc.slotColor)
                 IN updateAllColorsFrom(j + 1, d, parts, model,
                      [slotColor |-> r.slotColor, applied |-> acc.applied \cup {c},
                       threw |-> acc.threw \/ r.threw])
            ELSE updateAllColorsFrom(j + 1, d, parts, model, acc)

\* A version that reads el.value without looking whether el exists.
updateAllColorsUnguarded(d, parts, model, colors) ==
  IF d.present = ColorInputSet
    THEN updateAllColorsFrom(1, d, parts, model,
                             [slotColor |-> colors, applied |-> {}, threw |-> FALSE])
    ELSE [slotColor |-> colors, applied |-> {}, threw |-> TRUE]

\* updateAllColors(): the value of each existing color input applied to its
\* category.
updateAllColors(d, parts, model, colors) ==
  updateAllColorsFrom(1, d, parts, model,
                      [slotColor |-> colors, applied |-> {}, threw |-> FALSE])

\* A version whose painting empties the arrays it has walked.
classifyAndPaintConsuming(object, value, parts) ==
  LET index == analyzeModel(parts, object).parts
      painted == updateAllColors([present |-> DOMAIN value, value |-> value],
                                 index, object, initialColors(object))
  IN [houseParts |-> [c \in DOMAIN index |-> IF c \in painted.applied THEN <<>> ELSE index[c]],
      slotColor |-> painted.slotColor,
      applied |-> painted.applied, threw |-> painted.threw]

\* analyzeModel(object) followed by updateAllColors(), on a page whose
\* existing color inputs hold value (a function on the inputs that exist).
classifyAndPaint(object, value, parts) ==
  LET index == analyzeModel(parts, object).parts
      painted == updateAllColors([present |-> DOMAIN value, value |-> value],
                                 index, object, initialColors(object))
  IN [houseParts |-> index, slotColor |-> painted.slotColor,
      applied |-> painted.applied, threw |-> painted.threw]

\* The steps the success callback and createProceduralHouse share: the
\* object becomes houseModel and is added to the scene, analyzeModel rebuilds
\* the Part Index, the loading screen gives way to the controls, and
\* updateAllColors paints the new model.  r is the request that delivered it.
completeLoad(object, status, r, d, sc, parts) ==
  LET shown == [Reported(d, object) EXCEPT !.loading = "none", !.controls = "block",
                                          !.status = status]
      out == classifyAndPaint(object, shown.value, parts)
  IN [houseModel |-> object, modelId |-> r, scene |-> (r :> object) @@ sc,
      houseParts |-> out.houseParts, dom |-> shown, slotColor |-> out.slotColor,
      applied |-> out.applied, threw |-> out.threw, analyzeCalls |-> 1]

\* A success callback that builds the fallback house once it has set up
\* the loaded object.
onLoadThenFallback(object, r, d, sc, parts) ==
  LET c == completeLoad(object, "Model: Loaded", r, d, sc, parts)
      f == completeLoad(ProceduralHouse, "Model: Procedural House", r, c.dom, c.scene,
                        c.houseParts)
  IN [f EXCEPT !.analyzeCalls = c.analyzeCalls + f.analyzeCalls]

\* The success callback of loader.load.
onLoad(object, r, d, sc, parts) ==
  completeLoad(object, "Model: Loaded", r, d, sc, parts)

\* A fallback that leaves the loading screen and the controls as they are.
createProceduralHouseBehindLoading(r, d, sc, parts) ==
  [completeLoad(ProceduralHouse, "Model: Procedural House", r, d, sc, parts)
     EXCEPT !.dom = d]

\* createProceduralHouse(), called by the error callback of loader.load.
createProceduralHouse(r, d, sc, parts) ==
  completeLoad(ProceduralHouse, "Model: Procedural House", r, d, sc, parts)

\* scene.remove(houseModel) of the click listener: if (houseModel).
removeHouseModel(sc, id) ==
  IF id # 0 THEN [m \in DOMAIN sc \ {id} |-> sc[m]] ELSE sc

\* The page as loaded, with any of the color inputs missing.
InitLoad ==
  /\ houseModel = <<>>
  /\ houseParts = EmptyParts
  /\ slotColor = <<>>
  /\ expected = <<>>
  /\ twin = NoTwin
  /\ lastOp = NoOp
  /\ InitView
  /\ scene = <<>>
  /\ pending = {}
  /\ issued = 0
  /\ modelId = 0
  /\ analyzeCalls = <<>>
  /\ \E present \in SUBSET ColorInputSet :
       dom = Page(present, [c \in present |-> "#8B4513"], "block", "none")

\* init(): addEventListeners(), then loadHouseModel() issues request 1.
Startup ==
  LET r == addEventListeners(dom)
  IN /\ lastOp.op = "init"
     /\ dom' = r.dom
     /\ pending' = IF r.threw THEN pending ELSE {1}
     /\ issued' = IF r.threw THEN issued ELSE 1
     /\ lastOp' = [NoOp EXCEPT !.op = "startup", !.threw = r.threw]
     /\ UNCHANGED <<partVars, viewVars, scene, modelId, analyzeCalls>>

\* A click on Load Model: the current house model leaves the scene, the
\* loading screen is shown, and loadHouseModel() issues a request.
LoadModelClick ==
  /\ issued >= 1
  /\ issued < MaxLoads
  /\ scene' = removeHouseModel(scene, modelId)
  /\ dom' = [dom EXCEPT !.loading = "block", !.controls = "none",
                        !.status = "Model: Loading..."]
  /\ pending' = pending \cup {issued + 1}
  /\ issued' = issued + 1
  /\ lastOp' = [NoOp EXCEPT !.op = "loadModelClick"]
  /\ UNCHANGED <<partVars, viewVars, modelId, analyzeCalls>>

\* The number of analyzeModel calls made for request r so far.
CallsFor(r) == IF r \in DOMAIN analyzeCalls THEN analyzeCalls[r] ELSE 0

\* What a completed load leaves in the state.
Completed(r, c) ==
  /\ houseModel' = c.houseModel
  /\ modelId' = c.modelId
  /\ scene' = c.scene
  /\ houseParts' = c.houseParts
  /\ dom' = c.dom
  /\ slotColor' = c.slotColor
  /\ expected' = c.slotColor
  /\ pending' = pending \ {r}
  /\ analyzeCalls' = (r :> CallsFor(r) + c.analyzeCalls) @@ analyzeCalls
  /\ UNCHANGED <<twin, viewVars, issued>>

\* The loader calls the success callback of request r with object.
LoadSuccess(r, object) ==
  LET c == onLoad(object, r, dom, scene, houseParts)
  IN /\ r \in pending
     /\ Completed(r, c)
     /\ lastOp' = [NoOp EXCEPT !.op = "loadSuccess", !.threw = c.threw,
                               !.applied = c.applied]

\* The loader calls the error callback of request r.
LoadError(r) ==
  LET c == createProceduralHouse(r, dom, scene, houseParts)
  IN /\ r \in pending
     /\ Completed(r, c)
     /\ lastOp' = [NoOp EXCEPT !.op = "loadError", !.threw = c.threw,
                               !.applied = c.applied]

\* An input event of a color input with a listener.
ColorInput(c, color) ==
  LET r == updatePartColor(c, color, houseParts, houseModel, slotColor)
  IN /\ c \in dom.wired
     /\ dom' = [dom EXCEPT !.value[c] = color]
     /\ slotColor' = r.slotColor
     /\ expected' = slotColor'
     /\ lastOp' = [NoOp EXCEPT !.op = "input", !.threw = r.threw]
     /\ UNCHANGED <<houseModel, houseParts, twin, viewVars, scene, pending, issued,
                   modelId, analyzeCalls>>

\* A click on a preset of category target: the listener writes the color
\* into the category's input before it calls updatePartColor, and throws if
\* there is no such input.
PresetClick(target, color) ==
  LET r == updatePartColor(target, color, houseParts, houseModel, slotColor)
  IN /\ issued >= 1
     /\ IF target \in dom.present
          THEN /\ dom' = [dom EXCEPT !.value[target] = color]
               /\ slotColor' = r.slotColor
               /\ lastOp' = [NoOp EXCEPT !.op = "preset", !.threw = r.threw]
          ELSE /\ UNCHANGED <<dom, slotColor>>
               /\ lastOp' = [NoOp EXCEPT !.op = "preset", !.threw = TRUE]
     /\ expected' = slotColor'
     /\ UNCHANGED <<houseModel, houseParts, twin, viewVars, scene, pending, issued,
                   modelId, analyzeCalls>>

\* Request r ends: the steps that take r out of the requests in flight are
\* the calls of its success callback and of its error callback.
LoadDone(r) ==
  /\ r \in pending
  /\ pending' = pending \ {r}

NextLoad ==
  \/ Startup
  \/ LoadModelClick
  \/ \E r \in 1..MaxLoads : \E object \in LoadableGraphs : LoadSuccess(r, object)
  \/ \E r \in 1..MaxLoads : LoadError(r)
  \/ \E c \in ColorInputSet, color \in Colors : ColorInput(c, color)
  \/ \E target \in ColorInputSet, color \in Colors : PresetClick(target, color)

\* Loading, reloading and coloring.  The loader ends every request with one
\* of its callbacks.
SpecLoad ==
  InitLoad /\ [][NextLoad]_vars /\ \A r \in 1..MaxLoads : WF_pending(LoadDone(r))

----------------------------------------------------------------------------
(* The render-scheduled version: classification, coloring and draws *)

\* analyzeModel of part_001 that leaves the windows array as it is.
resetPartsInPlaceButWindows(parts) ==
  [key \in DOMAIN parts |->
     IF key \in {"walls", "roof", "doors", "other"} THEN <<>> ELSE parts[key]]

\* houseParts.walls.length = 0; ... houseParts.other.length = 0: the five
\* arrays are emptied in place.
resetPartsInPlace(parts) ==
  [key \in DOMAIN parts |->
     IF key \in {"walls", "roof", "doors", "windows", "other"} THEN <<>> ELSE parts[key]]

\* The if / else-if chain of the traverse callback of part_001.
categorizeScheduled(child, meshCount) ==
  LET name == toLowerCase(child.name)
      hasMaterialArray == child.material.kind = "array"
      materialCount == IF hasMaterialArray THEN child.material.n
                       ELSE IF child.material.kind # "none" THEN 1 ELSE 0
  IN IF includes(name, kwCottage) /\ materialCount >= 4
       THEN <<"walls", "roof", "doors", "windows">>
     ELSE IF includes(name, kwCottage) \/ includes(name, kwHouse) \/ meshCount = 1
       THEN <<"walls">>
     ELSE IF includes(name, kwWall) \/ includes(name, kwSiding) \/ includes(name, kwExterior)
       THEN <<"walls">>
     ELSE IF includes(name, kwRoof) \/ includes(name, kwShingle) \/ includes(name, kwTile)
       THEN <<"roof">>
     ELSE IF includes(name, kwDoor) \/ includes(name, kwEntrance)
       THEN <<"doors">>
     ELSE IF includes(name, kwWindow) \/ includes(name, kwGlass) \/ includes(name, kwPane)
       THEN <<"windows">>
     ELSE <<"other">>

\* categorizeScheduled tabulated over the nodes and counter values a
\* traversal meets.
categorizeScheduledMemo ==
  [child \in NodeKinds \cup {ProceduralHouse[j] : j \in DOMAIN ProceduralHouse},
   meshCount \in 1..(MaxNodes + Len(ProceduralHouse)) |-> categorizeScheduled(child, meshCount)]

RECURSIVE traverseScheduled(_, _, _, _)
\* object.traverse(...) of part_001's analyzeModel from node i on.
traverseScheduled(object, i, parts, meshCount) ==
  IF i > Len(object) THEN parts
  ELSE IF object[i].isMesh
    THEN traverseScheduled(object, i + 1,
           pushInto(parts, categorizeScheduledMemo[object[i], meshCount + 1], i),
           meshCount + 1)
    ELSE traverseScheduled(object, i + 1, parts, meshCount)

\* analyzeModel(object) of part_001: the Part Index it builds, and the
\* render it requests when it is done.
analyzeModelScheduled(parts, object) ==
  [parts |-> traverseScheduled(object, 1, resetPartsInPlace(parts), 0),
   needsRender |-> requestRender]

\* getPartMaterialIndex of part_001.
getPartMaterialIndexScheduled(partType) ==
  IF partType = "walls" THEN 0
  ELSE IF partType = "roof" THEN 1
  ELSE IF partType = "doors" THEN 2
  ELSE IF partType = "windows" THEN 3
  ELSE -1

RECURSIVE paintPartsScheduled(_, _, _, _, _)
\* parts.forEach of part_001's updatePartColor: a material list gets the
\* slot of the part type painted if it has one, a single material is painted.
paintPartsScheduled(partType, color, list, model, colors) ==
  IF list = <<>> THEN colors
  ELSE LET part == Head(list)
           material == model[part].material
           materialIndex == getPartMaterialIndexScheduled(partType)
           painted ==
             IF material.kind = "none" THEN colors[part]
             ELSE IF material.kind = "array"
               THEN IF materialIndex >= 0 /\ materialIndex < material.n
                      THEN [colors[part] EXCEPT ![materialIndex + 1] = color]
                      ELSE colors[part]
               ELSE [colors[part] EXCEPT ![1] = color]
       IN paintPartsScheduled(partType, color, Tail(list), model,
                              [colors EXCEPT ![part] = painted])

\* An updatePartColor that requests no render.
updatePartColorUnscheduled(partType, color, parts, model, colors, flag) ==
  IF partType \notin DOMAIN parts
    THEN [slotColor |-> colors, threw |-> TRUE, needsRender |-> flag]
    ELSE [slotColor |-> paintPartsScheduled(partType, color, parts[partType], model, colors),
          threw |-> FALSE, needsRender |-> flag]

\* updatePartColor(partType, color) of part_001, called with the render
\* flag at flag: requestRender() is its last statement, not reached when
\* houseParts[partType] is undefined.
updatePartColorScheduled(partType, color, parts, model, colors, flag) ==
  IF partType \notin DOMAIN parts
    THEN [slotColor |-> colors, threw |-> TRUE, needsRender |-> flag]
    ELSE [slotColor |-> paintPartsScheduled(partType, color, parts[partType], model, colors),
          threw |-> FALSE, needsRender |-> requestRender]

RECURSIVE updateAllColorsScheduledFrom(_, _, _, _, _)
\* The four lookups of part_001's updateAllColors from the j-th on.
updateAllColorsScheduledFrom(j, d, parts, model, acc) ==
  IF j > Len(ColorInputs) THEN acc
  ELSE LET c == ColorInputs[j]
       IN IF c \in d.present
            THEN LET r == updatePartColorScheduled(c, d.value[c], parts, model,
                                                   acc.slotColor, acc.needsRender)
                 IN updateAllColorsScheduledFrom(j + 1, d, parts, model,
                      [slotColor |-> r.slotColor, needsRender |-> r.needsRender])
            ELSE updateAllColorsScheduledFrom(j + 1, d, parts, model, acc)

\* updateAllColors() of part_001.
updateAllColorsScheduled(d, parts, model, colors, flag) ==
  updateAllColorsScheduledFrom(1, d, parts, model,
                               [slotColor |-> colors, needsRender |-> flag])

\* The success callback of part_001: analyzeModel, the controls shown,
\* requestRender(), updateAllColors().
onLoadScheduled(object, d, parts) ==
  LET index == analyzeModelScheduled(parts, object)
      shown == [Reported(d, object) EXCEPT !.loading = "none", !.controls = "block",
                                          !.status = "Model: Loaded"]
      painted == updateAllColorsScheduled(shown, index.parts, object,
                                          initialColors(object), requestRender)
  IN [houseModel |-> object, houseParts |-> index.parts, dom |-> shown,
      slotColor |-> painted.slotColor, needsRender |-> painted.needsRender]

\* createProceduralHouse() of part_001: analyzeModel, the controls shown,
\* updateAllColors().
createProceduralHouseScheduled(d, parts) ==
  LET index == analyzeModelScheduled(parts, ProceduralHouse)
      shown == [Reported(d, ProceduralHouse) EXCEPT !.loading = "none",
                  !.controls = "block", !.status = "Model: Procedural House"]
      painted == updateAllColorsScheduled(shown, index.parts, ProceduralHouse,
                                          initialColors(ProceduralHouse), index.needsRender)
  IN [houseModel |-> ProceduralHouse, houseParts |-> index.parts, dom |-> shown,
      slotColor |-> painted.slotColor, needsRender |-> painted.needsRender]

\* What src/src/main.js holds after the same completed load.
TwinOf(c) == [houseModel |-> c.houseModel, houseParts |-> c.houseParts,
              slotColor |-> c.slotColor]

\* A completed load leaves its result in the state of both versions.
CompletedScheduled(c, m) ==
  /\ houseModel' = c.houseModel
  /\ houseParts' = c.houseParts
  /\ slotColor' = c.slotColor
  /\ expected' = c.slotColor
  /\ dom' = c.dom
  /\ needsRender' = c.needsRender
  /\ twin' = TwinOf(m)
  /\ UNCHANGED <<orbit, camera, drew, resizeTimeout, drawn,
                 scene, pending, issued, modelId, analyzeCalls>>

\* The loader calls the success callback with object.
LoadSuccessScheduled(object) ==
  /\ CompletedScheduled(onLoadScheduled(object, dom, houseParts),
                        onLoad(object, 1, dom, <<>>, twin.houseParts))
  /\ lastOp' = [NoOp EXCEPT !.op = "loadSuccess"]

\* The loader calls the error callback.
LoadErrorScheduled ==
  /\ CompletedScheduled(createProceduralHouseScheduled(dom, houseParts),
                        createProceduralHouse(1, dom, <<>>, twin.houseParts))
  /\ lastOp' = [NoOp EXCEPT !.op = "loadError"]

\* An input event of the color input of category c, or a click on a preset
\* of category c: the input holds color, updatePartColor(c, color) runs.
ColorChangeScheduled(op, c, color) ==
  LET r == updatePartColorScheduled(c, color, houseParts, houseModel, slotColor, needsRender)
      m == updatePartColor(c, color, twin.houseParts, twin.houseModel, twin.slotColor)
  IN /\ c \in dom.present
     /\ dom' = [dom EXCEPT !.value[c] = color]
     /\ slotColor' = r.slotColor
     /\ expected' = r.slotColor
     /\ needsRender' = r.needsRender
     /\ twin' = [twin EXCEPT !.slotColor = m.slotColor]
     /\ lastOp' = [NoOp EXCEPT !.op = op, !.threw = r.threw]
     /\ UNCHANGED <<houseModel, houseParts, orbit, camera, drew, resizeTimeout, drawn,
                    scene, pending, issued, modelId, analyzeCalls>>

NextScheduled ==
  \/ \E object \in LoadableGraphs : LoadSuccessScheduled(object)
  \/ LoadErrorScheduled
  \/ \E c \in ColorInputSet, color \in Colors : ColorChangeScheduled("input", c, color)
  \/ \E c \in ColorInputSet, color \in Colors : ColorChangeScheduled("preset", c, color)
  \/ Animate

\* Loads, color changes and frames of the render-scheduled version, with
\* src/src/main.js taken through the same loads and color changes.  The
\* browser keeps calling the frame callback.
SpecScheduled ==
  Init /\ [][NextScheduled]_vars /\ WF_needsRender(Animate)

----------------------------------------------------------------------------
(* Claims: classification *)

NamedCategories == {"walls", "roof", "doors", "windows"}

\* Number of times reference x occurs in sequence seq.
Count(seq, x) == Cardinality({j \in DOMAIN seq : seq[j] = x})

\* The renderable leaves (isMesh nodes) of a graph.
Meshes(model) == {i \in DOMAIN model : model[i].isMesh}

\* The composite-detection rule applies to the node.
IsComposite(node) ==
  includes(toLowerCase(node.name), kwCottage) /\ materialCountOf(node) >= 4

\* Node i is listed once in category c and in no other category.
OnlyIn(c, i) ==
  \A d \in Categories : Count(houseParts[d], i) = (IF d = c THEN 1 ELSE 0)

C2_FrontDoorGlassInDoors ==
  Cardinality(Meshes(houseModel)) >= 2 =>
    \A i \in Meshes(houseModel) :
      houseModel[i].name = FrontDoor_Glass => OnlyIn("doors", i)

\* C7: analyzeModel called again on the unchanged graph it classified last
\* leaves every category sequence as it was (same nodes, order, multiplicity).
C7_ReclassifySame ==
  [][(lastOp'.op = "analyzeModel" /\ lastOp'.sameObject) => houseParts' = houseParts]_vars

\* A second call on a graph with a composite leaf and another leaf.
C7_Witness ==
  /\ lastOp.op = "analyzeModel" /\ lastOp.sameObject
  /\ \E i, j \in Meshes(houseModel) :
       /\ i # j
       /\ IsComposite(houseModel[i])
       /\ houseParts["walls"] = <<i, j>>

C9_NoLeavesAllEmpty ==
  (lastOp.op = "analyzeModel" /\ Meshes(houseModel) = {}) => houseParts = EmptyParts

\* An empty group classified while the Part Index held entries.
C9_Witness ==
  /\ lastOp.op = "analyzeModel" /\ lastOp.hadEntries /\ ~lastOp.sameObject
  /\ houseModel = <<Group>>
  /\ houseParts = EmptyParts

----------------------------------------------------------------------------
(* Claims: color application *)

\* The step is a call updatePartColor(partType, color) that returned.
Painted(partType, color) ==
  /\ lastOp'.op = "updatePartColor"
  /\ lastOp'.partType = partType
  /\ lastOp'.color = color

\* Node i is a "CottageBody" mesh with four material slots.
IsCottageBody4(i) == houseModel[i] = Mesh(CottageBody, MaterialArray(4))

C4_ResolvedSlotsPainted ==
  (lastOp.op = "updatePartColor" /\ ~lastOp.threw) =>
    \A i \in DOMAIN slotColor : \A s \in DOMAIN slotColor[i] :
      Resolved(lastOp.partType, houseParts, houseModel, i, s)
        => slotColor[i][s] = lastOp.color

C6_LastResolvingCallWins == slotColor = expected

\* C10: updatePartColor on one of the five categories whose sequence is
\* empty does not throw, changes no slot color and no Part Index membership.
C10_EmptyCategoryNoOp ==
  [][(/\ lastOp'.op = "updatePartColor"
      /\ lastOp'.partType \in Categories
      /\ houseParts[lastOp'.partType] = <<>>)
       => (~lastOp'.threw /\ slotColor' = slotColor /\ houseParts' = houseParts)]_vars

\* updatePartColor("other", c) returned on an index whose other sequence is
\* empty while walls holds a painted node.
C10_Witness ==
  /\ lastOp.op = "updatePartColor" /\ lastOp.partType = "other" /\ ~lastOp.threw
  /\ houseParts["other"] = <<>>
  /\ houseParts["walls"] # <<>>
  /\ \E i \in DOMAIN slotColor : slotColor[i] = <<"#8B4513">>

----------------------------------------------------------------------------
(* Claims: rule order and traversal order *)

\* The set of references a sequence holds.
Range(seq) == {seq[j] : j \in DOMAIN seq}

\* Keyword rules and default of the classifier's design, on a lowercased
\* label: walls, roof, doors, windows keywords in this order, else other.
KeywordRule(name) ==
  IF includes(name, kwWall) \/ includes(name, kwSiding) \/ includes(name, kwExterior)
    THEN "walls"
  ELSE IF includes(name, kwRoof) \/ includes(name, kwShingle) \/ includes(name, kwTile)
    THEN "roof"
  ELSE IF includes(name, kwDoor) \/ includes(name, kwEntrance)
    THEN "doors"
  ELSE IF includes(name, kwWindow) \/ includes(name, kwGlass) \/ includes(name, kwPane)
    THEN "windows"
  ELSE "other"

\* The label names the whole object ("cottage" or "house").
NamesWholeObject(node) ==
  includes(toLowerCase(node.name), kwCottage) \/ includes(toLowerCase(node.name), kwHouse)

\* The rule groups in their fixed order, first match wins: composite
\* detection, single composite fallback (whole-object label, or the only
\* renderable leaf of the graph), keyword rules, default.
RuleCategories(node, onlyLeaf) ==
  IF IsComposite(node) THEN NamedCategories
  ELSE IF NamesWholeObject(node) \/ onlyLeaf THEN {"walls"}
  ELSE {KeywordRule(toLowerCase(node.name))}

\* The graph visited in the order perm: position k holds node perm[k].
Reordered(model, perm) == [k \in DOMAIN model |-> model[perm[k]]]

\* C15: the category membership does not depend on the order in which the
\* traversal visits the leaves: classifying the same nodes in any other
\* order puts the same set of nodes into each category.
C15_OrderIndependent ==
  lastOp.op = "analyzeModel" =>
    \A perm \in Permutations(DOMAIN houseModel) :
      LET other == analyzeModel(EmptyParts, Reordered(houseModel, perm)).parts
      IN \A c \in Categories :
           {perm[k] : k \in Range(other[c])} = Range(houseParts[c])

\* C16: in a graph with two or more renderable leaves, a leaf whose label
\* contains neither "cottage" nor "house" is classified by the keyword
\* rules or the default, not by the single composite fallback.
C16_FallbackOnlyForSoleLeaf ==
  Cardinality(Meshes(houseModel)) >= 2 =>
    \A i \in Meshes(houseModel) :
      (~IsComposite(houseModel[i]) /\ ~NamesWholeObject(houseModel[i]))
        => OnlyIn(KeywordRule(toLowerCase(houseModel[i].name)), i)

\* C17: every leaf is listed, once, in exactly the categories of the first
\* rule group that matches it, the groups taken in their fixed order; a
\* leaf no rule matches is listed in other only.
C17_FirstMatchingRuleWins ==
  \A i \in Meshes(houseModel) : \A c \in Categories :
    Count(houseParts[c], i) =
      (IF c \in RuleCategories(houseModel[i], Meshes(houseModel) = {i}) THEN 1 ELSE 0)

\* The classifier agrees with the rule groups on every leaf but the first
\* leaf reached in a graph with several leaves.
RulesHoldBeyondFirstLeaf ==
  \A i \in Meshes(houseModel) :
    (Meshes(houseModel) = {i} \/ \E j \in Meshes(houseModel) : j < i) =>
      \A c \in Categories :
        Count(houseParts[c], i) =
          (IF c \in RuleCategories(houseModel[i], Meshes(houseModel) = {i}) THEN 1 ELSE 0)

----------------------------------------------------------------------------
(* Claims: single-slot nodes and unresolvable slots *)

\* C18: after updatePartColor(cat, c) every node of cat's sequence that
\* carries exactly one material slot, as a single material object or as a
\* one-element list, has that slot colored c.
C18_SingleSlotPainted ==
  (lastOp.op = "updatePartColor" /\ ~lastOp.threw) =>
    \A i \in Range(houseParts[lastOp.partType]) :
      materialCountOf(houseModel[i]) = 1 => slotColor[i] = <<lastOp.color>>

\* partType has no slot to repaint on the node: the node has no material,
\* or several slots of which none is at the part type's Material Slot Map
\* index (no index, or an index not below the slot count).
Unresolvable(partType, node) ==
  \/ node.material.kind = "none"
  \/ /\ materialCountOf(node) > 1
     /\ \/ partType \notin DOMAIN SlotMapIndex
        \/ SlotMapIndex[partType] >= materialCountOf(node)

\* partType repaints a slot of the node: its single material object, or the
\* mapped slot of its several slots.
Repaintable(partType, node) ==
  \/ node.material.kind = "single"
  \/ /\ materialCountOf(node) > 1
     /\ partType \in DOMAIN SlotMapIndex
     /\ SlotMapIndex[partType] < materialCountOf(node)

----------------------------------------------------------------------------
(* Claims: render loop and zoom *)

\* C12: an iteration of the render loop issues a draw exactly if needsRender
\* was set when it started, and leaves needsRender cleared; an iteration that
\* starts with the flag cleared issues no draw and leaves it cleared.
C12_DrawIffNeedsRender ==
  [][lastOp'.op = "animate" => (drew' = needsRender /\ needsRender' = FALSE)]_vars

\* An iteration that started with the flag cleared, after an earlier one drew
\* and a frame of the rotation loop ran in between: no draw.
C12_Witness ==
  /\ lastOp.op = "animate"
  /\ ~drew
  /\ ~needsRender
  /\ orbit.radius # InitialOrbit.radius

\* No rotation is in progress: each rotation has reached its target.
AtRest(o) ==
  /\ o.rotationX = o.targetRotationX
  /\ o.rotationY = o.targetRotationY

\* C14: the frame of the rotation loop that follows a wheel event places the
\* camera with the new orbit radius, also when no rotation is in progress.
\* (With the rotation at rest a frame leaves the orbit variables as they
\* are, so what the first frame after the wheel event does not do, no later
\* frame does before the next pointer event.)
C14_ZoomReachesCamera ==
  [][(lastOp.op = "wheel" /\ lastOp'.op = "updateRotation")
       => camera'.radius = orbit'.radius]_vars

----------------------------------------------------------------------------
(* Claims: loading *)

\* The interactive state: the loading screen hidden, the controls shown.
Interactive == dom.loading = "none" /\ dom.controls = "block"

\* C11: every load request, the one init() issues and each Load Model
\* click, ends with the page interactive, whether the loader reports success
\* or error; after an error the procedural house is houseModel, attached to
\* the scene, and each of its meshes is in the Part Index.
C11_LoadReachesInteractive ==
  /\ \A r \in 1..MaxLoads : (r \in pending) ~> (r \notin pending /\ Interactive)
  /\ [](lastOp.op = "loadError" =>
          /\ houseModel = ProceduralHouse
          /\ modelId \in DOMAIN scene
          /\ scene[modelId] = ProceduralHouse
          /\ \A i \in Meshes(ProceduralHouse) :
               \E c \in Categories : Count(houseParts[c], i) = 1)

\* The request of a Load Model click has failed after the first load, and
\* the page is interactive with the procedural house.
C11_Witness ==
  /\ lastOp.op = "loadError"
  /\ modelId = 2
  /\ pending = {}
  /\ Interactive

\* C13: whichever of the four color inputs are missing, addEventListeners
\* and updateAllColors do not throw, wire and apply exactly the inputs that
\* exist, and leave the slots of the categories without an input as loaded.
C13_MissingInputsTolerated ==
  /\ lastOp.op = "startup" => (~lastOp.threw /\ dom.wired = dom.present)
  /\ lastOp.op \in {"loadSuccess", "loadError"} =>
       /\ ~lastOp.threw
       /\ lastOp.applied = dom.present
       /\ \A c \in ColorInputSet \ dom.present :
            \A i \in DOMAIN houseModel : \A s \in DOMAIN slotColor[i] :
              Resolved(c, houseParts, houseModel, i, s)
                => slotColor[i][s] = InitialColor

\* A load has completed on a page with only the walls and doors inputs, and
\* both were applied to a model with a slot for each category.
C13_Witness ==
  /\ lastOp.op = "loadSuccess"
  /\ dom.present = {"walls", "doors"}
  /\ lastOp.applied = {"walls", "doors"}
  /\ dom.wired = {"walls", "doors"}
  /\ \E i \in DOMAIN houseModel :
       /\ materialCountOf(houseModel[i]) = 4
       /\ slotColor[i][1] = dom.value["walls"]
       /\ slotColor[i][2] = InitialColor

\* C20: with no load in flight, every renderable leaf of every house model
\* attached to the scene is a leaf of the model the Part Index was built
\* from, and is in the Part Index.
C20_AttachedModelsIndexed ==
  pending = {} =>
    \A m \in DOMAIN scene : \A i \in Meshes(scene[m]) :
      /\ m = modelId
      /\ \E c \in Categories : Count(houseParts[c], i) >= 1

\* ---------------------------------------------------------------------
\* Rebuilding the Part Index
\* ---------------------------------------------------------------------

\* C21: each classify call rebuilds the Part Index wholesale: when
\* analyzeModel(G) has returned, every reference held by a category is a
\* renderable leaf of G, held once by that category, and the index is the
\* one a classification of G from an empty index gives, so that nothing of
\* a graph classified earlier remains.
C21_RebuiltWholesale ==
  lastOp.op = "analyzeModel" =>
    /\ \A c \in Categories : \A j \in DOMAIN houseParts[c] :
         /\ houseParts[c][j] \in Meshes(houseModel)
         /\ Count(houseParts[c], houseParts[c][j]) = 1
    /\ houseParts = analyzeModel(EmptyParts, houseModel).parts

\* A graph classified over an index that held the leaves of another graph,
\* among them a position that is no leaf of the new graph.
C21_Witness ==
  /\ lastOp.op = "analyzeModel" /\ lastOp.hadEntries /\ ~lastOp.sameObject
  /\ Len(houseModel) = MaxNodes
  /\ ~houseModel[1].isMesh
  /\ houseParts["walls"] = <<MaxNodes>>

\* ---------------------------------------------------------------------
\* The report of a classification on the page
\* ---------------------------------------------------------------------

\* The materials the leaves of a graph carry: every slot of every leaf
\* holds a material of its own.
MaterialsOf(model) ==
  UNION {{<<i, s>> : s \in 1..materialCountOf(model[i])} : i \in Meshes(model)}

\* The manifest holds one entry per renderable leaf of the graph, and the
\* part count is the number of leaves.
ManifestOfCurrentGraph ==
  /\ Len(dom.modelParts) = Cardinality(Meshes(houseModel))
  /\ \A i \in Meshes(houseModel) :
       Cardinality({j \in DOMAIN dom.modelParts : dom.modelParts[j].child = i}) = 1
  /\ dom.modelDetails.parts = Cardinality(Meshes(houseModel))

\* C26: after each classify call the manifest holds exactly one entry per
\* renderable leaf of the graph just classified, the reported part count is
\* the number of its renderable leaves, and the reported material count is
\* the number of distinct materials those leaves carry.
C26_ReportRecomputed ==
  lastOp.op \in {"loadSuccess", "loadError"} =>
    /\ ManifestOfCurrentGraph
    /\ dom.modelDetails.materials = Cardinality(MaterialsOf(houseModel))

\* The manifest and the part count alone.
ManifestRecomputed ==
  lastOp.op \in {"loadSuccess", "loadError"} => ManifestOfCurrentGraph

\* The material count of the fallback house.
FallbackMaterialsCounted ==
  lastOp.op = "loadError" =>
    dom.modelDetails.materials = Cardinality(MaterialsOf(houseModel))

\* ---------------------------------------------------------------------
\* Coloring and the Part Index
\* ---------------------------------------------------------------------

\* C24: updatePartColor and updateAllColors never change the Part Index.
\* A color input or preset event (one updatePartColor call) leaves the five
\* category sequences as they were, and when a load callback has run
\* updateAllColors after analyzeModel the index is the one analyzeModel
\* built for the new model.
C24_ColoringKeepsIndex ==
  [][/\ lastOp'.op \in {"input", "preset"} => houseParts' = houseParts
     /\ lastOp'.op \in {"loadSuccess", "loadError"} =>
          houseParts' = analyzeModel(houseParts, houseModel').parts]_vars

\* A color event has repainted a slot of an indexed leaf, and the index
\* still holds the leaf.
C24_Witness ==
  /\ lastOp.op \in {"input", "preset"}
  /\ \E i \in Meshes(houseModel) :
       /\ \E s \in DOMAIN slotColor[i] : slotColor[i][s] = "#FFFFFF"
       /\ \E c \in NamedCategories : Count(houseParts[c], i) = 1

\* ---------------------------------------------------------------------
\* Loads and classify calls
\* ---------------------------------------------------------------------

\* C25: classification is invoked only after a load has completed.  Every
\* analyzeModel call is made by the success callback or by the fallback the
\* error callback builds, for a request that was in flight and ends with
\* that step; a request in flight has had no analyzeModel call, and a
\* request that has ended has had exactly one.
C25_OneClassifyPerLoad ==
  /\ [](\A r \in 1..MaxLoads :
          CallsFor(r) = (IF r \in 1..issued /\ r \notin pending THEN 1 ELSE 0))
  /\ [][analyzeCalls' # analyzeCalls =>
          /\ lastOp'.op \in {"loadSuccess", "loadError"}
          /\ \E r \in pending : /\ r \notin pending'
                                /\ analyzeCalls' = (r :> 1) @@ analyzeCalls]_vars

\* Overlapping requests have all ended, a later one before an earlier one,
\* one with the success callback and the last with the fallback.
C25_Witness ==
  /\ issued = MaxLoads /\ pending = {}
  /\ lastOp.op = "loadError"
  /\ modelId # issued
  /\ \A r \in 1..MaxLoads : CallsFor(r) = 1
  /\ \E m \in DOMAIN scene : scene[m] # ProceduralHouse

\* C27: when load requests overlap, then for every order in which their
\* callbacks run, once all callbacks have run houseModel is the model the
\* most recently issued request delivered and the Part Index is the
\* classification of that model.
C27_LatestRequestWins ==
  (issued >= 1 /\ pending = {}) =>
    /\ modelId = issued
    /\ houseParts = analyzeModel(EmptyParts, houseModel).parts

\* After every callback, houseModel is the model of the request whose
\* callback it was, and the Part Index is the classification of that model.
LastCompletedWins ==
  [][\A r \in pending : r \notin pending' =>
       /\ modelId' = r
       /\ houseParts' = analyzeModel(EmptyParts, houseModel').parts]_vars

\* ---------------------------------------------------------------------
\* Colors after a load
\* ---------------------------------------------------------------------

\* C28: after each completed load (success or fallback), for each of the
\* four named categories whose color input exists, every material slot
\* resolved for the category holds the color the category's input holds.
C28_InputColorsReapplied ==
  lastOp.op \in {"loadSuccess", "loadError"} =>
    \A c \in dom.present : \A i \in DOMAIN houseModel : \A s \in DOMAIN slotColor[i] :
      Resolved(c, houseParts, houseModel, i, s) => slotColor[i][s] = dom.value[c]

\* The same with the leaves left out that carry their only material in a
\* list.
ReappliedButOneElementLists ==
  lastOp.op \in {"loadSuccess", "loadError"} =>
    \A c \in dom.present : \A i \in DOMAIN houseModel : \A s \in DOMAIN slotColor[i] :
      (Resolved(c, houseParts, houseModel, i, s) /\ houseModel[i].material # MaterialArray(1))
        => slotColor[i][s] = dom.value[c]

\* ---------------------------------------------------------------------
\* The fallback scene
\* ---------------------------------------------------------------------

\* The node of the house model with the label.
Named(label) == CHOOSE i \in DOMAIN houseModel : houseModel[i].name = label

\* C29: after a failed load the fallback scene classifies to
\* walls = [walls], roof = [roof], doors = [door],
\* windows = [window_left, window_right], other = []; each of the four
\* color controls has a slot of a fallback node resolved for it, and no
\* fallback node has slots resolved for two controls.
C29_FallbackClassification ==
  lastOp.op = "loadError" =>
    /\ \A label \in {WallsName, RoofName, DoorName, WindowLeft, WindowRight} :
         Cardinality({i \in DOMAIN houseModel : houseModel[i].name = label}) = 1
    /\ houseParts = [walls |-> <<Named(WallsName)>>, roof |-> <<Named(RoofName)>>,
                     doors |-> <<Named(DoorName)>>,
                     windows |-> <<Named(WindowLeft), Named(WindowRight)>>,
                     other |-> <<>>]
    /\ \A c \in NamedCategories : \E i \in Meshes(houseModel) :
         \E s \in DOMAIN slotColor[i] : Resolved(c, houseParts, houseModel, i, s)
    /\ \A i \in Meshes(houseModel) :
         Cardinality({c \in NamedCategories : \E s \in DOMAIN slotColor[i] :
                        Resolved(c, houseParts, houseModel, i, s)}) <= 1

\* The error callback of a reload has built the fallback house in place of
\* a loaded model, and the four inputs have painted its five meshes.
C29_Witness ==
  /\ lastOp.op = "loadError"
  /\ lastOp.applied = NamedCategories
  /\ issued = MaxLoads
  /\ houseModel = ProceduralHouse
  /\ \A i \in Meshes(houseModel) : slotColor[i] = <<"#FFFFFF">>

\* ---------------------------------------------------------------------
\* The render-scheduled version: draws after color changes, and its
\* agreement with src/src/main.js
\* ---------------------------------------------------------------------

\* C23: with the frame callback scheduled fairly, every color mutation
\* made by updatePartColor is followed by a draw issued after it: in no
\* reachable state do the slot colors differ from the colors the last draw
\* showed while the render flag is clean, every state with the flag set is
\* followed by a frame that draws, and colors that differ from the drawn
\* ones are followed by a state in which they have been drawn.
C23_ColorChangesDrawn ==
  /\ [](slotColor # drawn => needsRender)
  /\ needsRender ~> (lastOp.op = "animate" /\ drew)
  /\ (slotColor # drawn) ~> (slotColor = drawn)

\* A frame has drawn a model with a slot a color change has painted, after
\* an earlier frame had drawn other colors.
C23_Witness ==
  /\ lastOp.op = "animate" /\ drew
  /\ ~needsRender
  /\ drawn = slotColor
  /\ \E i \in Meshes(houseModel) : \E s, t \in DOMAIN slotColor[i] :
       slotColor[i][s] = "#FFFFFF" /\ slotColor[i][t] = "#8B4513"

\* C30: the render-scheduled version and src/src/main.js, taken through the
\* same sequence of load completions, load failures and color changes,
\* hold the same house model, the same Part Index and the same material
\* slot colors after each event.
C30_VersionsAgree ==
  /\ twin.houseModel = houseModel
  /\ twin.houseParts = houseParts
  /\ twin.slotColor = slotColor

\* Both versions have reloaded: the fallback house stands, classified,
\* with a window repainted by a color change.
C30_Witness ==
  /\ lastOp.op \in {"input", "preset"}
  /\ twin.houseModel = ProceduralHouse
  /\ twin.houseParts["windows"] = houseParts["windows"]
  /\ Len(houseParts["windows"]) = 2
  /\ \E j \in DOMAIN houseParts["windows"] :
       /\ twin.slotColor[houseParts["windows"][j]] = <<"#FFFFFF">>
       /\ slotColor[houseParts["windows"][j]] = <<"#FFFFFF">>
  /\ drawn # <<>> /\ Len(drawn) # Len(slotColor)

\* ---------------------------------------------------------------------
\* Events and the render flag
\* ---------------------------------------------------------------------

\* Every color change and every completed load of the render-scheduled
\* version leaves needsRender set, whatever the flag was: updatePartColor
\* for every category and color on the current model, the success callback
\* for every loadable object, and the fallback.
ColorChangesAndLoadsRequestRender ==
  /\ \A c \in ColorInputSet, color \in Colors :
       updatePartColorScheduled(c, color, houseParts, houseModel, slotColor, FALSE).needsRender
  /\ \A object \in LoadableGraphs : onLoadScheduled(object, dom, houseParts).needsRender
  /\ createProceduralHouseScheduled(dom, houseParts).needsRender

\* C22: every camera movement (a frame of the rotation loop that moves the
\* camera, a wheel event that changes the orbit radius), every window
\* resize (once its timer has run), every color change and every completed
\* load leaves the render flag set, needsRender = true.
C22_EventsRequestRender ==
  [][/\ camera' # camera => needsRender'
     /\ orbit'.radius # orbit.radius => needsRender'
     /\ lastOp'.op = "resize" => (needsRender' \/ resizeTimeout')
     /\ lastOp'.op = "resizeTimeout" => needsRender'
     /\ ColorChangesAndLoadsRequestRender]_vars

\* The view events without the wheel events below the threshold of the
\* wheel listener.
EventsButFineWheelRequestRender ==
  [][/\ camera' # camera => needsRender'
     /\ Abs(orbit'.radius - orbit.radius) > 10 => needsRender'
     /\ lastOp'.op = "resize" => (needsRender' \/ resizeTimeout')
     /\ lastOp'.op = "resizeTimeout" => needsRender']_vars

====
